---- MODULE Spec2Model ----
(***************************************************************************)
(* Conversation state machine of the DX theme assistant.                   *)
(*                                                                         *)
(* Two frontends share one session state (st.session_state):               *)
(*   "single"  src/frontend/app.py main() with the handlers of app.py      *)
(*   "multi"   src/frontend/multistep_qa.py main() with the handlers of    *)
(*             src/frontend/streamlit_utils.py                             *)
(* selected by the MULTISTEP environment variable (app.py:391-395).        *)
(*                                                                         *)
(* A step of the model is either a user event followed by the script run   *)
(* it triggers, up to the first awaited model call or the end of the run,  *)
(* or the return of an awaited model call followed by the rest of that     *)
(* run.  st.rerun() ends the run and starts a fresh one; an uncaught       *)
(* exception ends the run and leaves the session state as it is.  User     *)
(* events are taken between runs; SpecFaults adds the restart button       *)
(* pressed while a run awaits the model, and the tool catalog failing.     *)
(* SpecUploads is the conversation of Spec run with fewer completions.     *)
(* SpecValidator and SpecCall run fetch_dx_tool_suggestions on its own,    *)
(* SpecPrompt the choice of the system prompt.                             *)
(* What happens when the modules are imported is not part of the model,    *)
(* and the keyword result_validation that multistep_qa.py passes to        *)
(* fetch_dx_tool_suggestions is taken as accepted by it.                   *)
(*                                                                         *)
(* Text is a sequence of tokens: <<>> is the empty string, and string      *)
(* concatenation is \o.  A Python dict is a function on its keys; its      *)
(* insertion order is kept separately where the code iterates over it.     *)
(***************************************************************************)
EXTENDS Integers, Sequences, FiniteSets, TLC

VARIABLES
    variant,             \* which main() runs: "single" or "multi"
    session_state,       \* st.session_state, the keys of empty_session_state
    empty_session_state, \* the module-level default dict of helpers.py
    file_uploader,       \* the st.file_uploader widget: its key and its file
    pc,                  \* where the script run stands
    last_op,             \* the handler that ran last
    raw_response,        \* what the model call came back with
    ai_response,         \* what fetch_dx_tool_suggestions returned for it
    catalog,             \* how the tool-catalog fetch of that call went
    telemetry,           \* how the telemetry submission of that call went
    identity,            \* the identity keys of st.session_state, and how
                         \* often they were derived and written
    restart_button       \* the restart button: "absent", "shown" on the
                         \* page, or "clicked" while a run is under way

vars == <<variant, session_state, empty_session_state, file_uploader, pc,
          last_op, raw_response, ai_response, catalog, telemetry, identity,
          restart_button>>

----------------------------------------------------------------------------
(* Bounds and constants *)

MaxFiles == 1

\* Derivations and writes of the identity fields are counted up to MaxCount.
MaxCount == 2

MAX_QUESTION_ROUNDS == 5

Files == 1..MaxFiles
NoFile == 0

\* Python None, and the empty dict.
NoneVal == [none |-> TRUE]
EmptyDict == <<>>

Range(s) == {s[i] : i \in 1..Len(s)}

\* d.get(k, default)
Get(d, k, default) == IF k \in DOMAIN d THEN d[k] ELSE default

\* d[k] = v
Put(d, k, v) == (k :> v) @@ d

\* class PromptType(str, Enum)
PromptType_DECISION == "decision"
PromptType_QUESTION == "questions"
PromptType_SOLUTION == "solution"

----------------------------------------------------------------------------
(* Model responses *)

\* purpose of the synthesized tool_combinations entry (the literal of
\* api.py:390 and app.py:95).
PrimaryPurpose == <<"primary solution">>

DefaultTool == "best available DX tool"
DefaultTodos == <<"best todo for now">>
ForcedNotice == "question limit reached"

GivenCombinations ==
    <<[tool |-> "T2", purpose |-> <<"support">>, todos |-> <<"t2">>]>>

TypeOpts == {EmptyDict} \cup
    {[type |-> t] : t \in {"questions", "solution", "decision", "error"}}
MessageOpts == {EmptyDict, [message |-> <<"m">>]}
QuestionsOpts == {EmptyDict} \cup
    {[questions |-> qs] :
        qs \in {<<>>, <<"q1">>, <<"q1", "q1">>, <<"q1", "q2">>}}
ToolOpts == {EmptyDict, [tool |-> "T1"]}
ToolsOpts == {EmptyDict, [tools |-> <<>>], [tools |-> <<"T1", "T2">>]}
PrimaryToolOpts == {EmptyDict, [primary_tool |-> "T2"], [primary_tool |-> "T3"]}
CombinationsOpts == {EmptyDict, [tool_combinations |-> GivenCombinations]}
TodosOpts == {EmptyDict, [todos |-> <<"t1">>]}

\* The JSON objects the model may answer with.
Payloads ==
    {t @@ m @@ q @@ a @@ b @@ p @@ c @@ d :
        t \in TypeOpts, m \in MessageOpts, q \in QuestionsOpts, a \in ToolOpts,
        b \in ToolsOpts, p \in PrimaryToolOpts, c \in CombinationsOpts,
        d \in TodosOpts}

\* What the awaited completion can come back with: a JSON object, JSON that
\* is no object, text that is no JSON, or an openai.APIError.
Completion(kind, content) == [kind |-> kind, content |-> content]

RawResponses ==
    {Completion("json", p) : p \in Payloads} \cup
    {Completion(k, EmptyDict) : k \in {"not_dict", "bad_json", "api_error"}}

ErrorResponse(msg) == [type |-> "error", message |-> <<msg>>]

----------------------------------------------------------------------------
(* utils/api.py *)

\* PromoteLegacyTool with primary_tool filled in only when it is missing.
PromoteLegacyTool_KeepPrimary(parsed_response) ==
    LET with_tools ==
            Put(Put(parsed_response, "tools", <<parsed_response["tool"]>>),
                "primary_tool",
                Get(parsed_response, "primary_tool", parsed_response["tool"]))
    IN  IF "tool_combinations" \notin DOMAIN parsed_response
        THEN Put(with_tools, "tool_combinations",
                 <<[tool |-> parsed_response["tool"],
                    purpose |-> PrimaryPurpose,
                    todos |-> parsed_response["todos"]]>>)
        ELSE with_tools

\* The promotion of the legacy shape (one "tool") to the new one.
PromoteLegacyTool(parsed_response) ==
    LET with_tools ==
            Put(Put(parsed_response, "tools", <<parsed_response["tool"]>>),
                "primary_tool", parsed_response["tool"])
    IN  IF "tool_combinations" \notin DOMAIN parsed_response
        THEN Put(with_tools, "tool_combinations",
                 <<[tool |-> parsed_response["tool"],
                    purpose |-> PrimaryPurpose,
                    todos |-> parsed_response["todos"]]>>)
        ELSE with_tools

\* The validation of the parsed response; a raised ValueError is caught by
\* the function itself and becomes an error response.
ValidateResponse(parsed_response) ==
    IF "type" \notin DOMAIN parsed_response
       \/ "message" \notin DOMAIN parsed_response
    THEN ErrorResponse("structure: no type or message")
    ELSE IF parsed_response["type"] = "solution"
            /\ "tools" \notin DOMAIN parsed_response
            /\ "tool" \notin DOMAIN parsed_response
    THEN ErrorResponse("structure: no tools or tool")
    ELSE IF parsed_response["type"] = "solution"
            /\ "todos" \notin DOMAIN parsed_response
    THEN ErrorResponse("structure: no todos")
    ELSE IF parsed_response["type"] = "questions"
            /\ "questions" \notin DOMAIN parsed_response
    THEN ErrorResponse("structure: no questions")
    ELSE IF parsed_response["type"] = "solution"
            /\ "tool" \in DOMAIN parsed_response
            /\ "tools" \notin DOMAIN parsed_response
    THEN PromoteLegacyTool(parsed_response)
    ELSE parsed_response

\* fetch_dx_tool_suggestions, from the completion on: what it returns.
fetch_dx_tool_suggestions(completion) ==
    CASE completion.kind = "api_error" -> ErrorResponse("api")
      [] completion.kind = "bad_json" -> ErrorResponse("json")
      [] completion.kind = "not_dict" ->
            ErrorResponse("structure: no type or message")
      [] completion.kind = "json" -> ValidateResponse(completion.content)

\* How the fetch of the tool catalog goes (fetch_aicatalog_dataset):
\* "raises" is get_aicatalog_id, dr.Dataset.get or the size check raising,
\* "no_dataset" is download_registry_dataset returning None.
CatalogOutcomes == {"ok", "raises", "no_dataset"}

\* How async_submit_actuals_to_datarobot goes: initialize_deployment
\* raising, the payload not being built, or the post failing (which the
\* function catches itself).
TelemetryOutcomes == {"ok", "lookup_fails", "payload_fails", "post_fails"}

\* An exception that leaves fetch_dx_tool_suggestions.
Escaped(exception) == [raised |-> exception]

\* The prompts of utils/prompts.py, each named after the function that
\* returns it; "None" is Python None, for a prompt and for a prompt_type.
\* system_prompt_switcher has no branch for a prompt_type that is none of
\* the three PromptType members, and returns None for it.
system_prompt_switcher(prompt_type) ==
    CASE prompt_type = "None" -> "get_system_prompt_description"
      [] prompt_type = PromptType_DECISION -> "get_system_prompt_for_decision"
      [] prompt_type = PromptType_QUESTION -> "get_system_prompt_for_questions"
      [] prompt_type = PromptType_SOLUTION -> "get_system_prompt_for_solution"
      [] OTHER -> "None"

\* fetch_prompts_with_tools, awaited before the try block.  With the
\* descriptions in use the catalog is fetched, df.to_dict fails on None,
\* and .format fails on a prompt that is None; without them the prompt is
\* get_system_prompt() whatever prompt_type is.
fetch_prompts_with_tools(use_tools_and_descriptions, prompt_type, catalog_outcome) ==
    IF use_tools_and_descriptions
    THEN CASE catalog_outcome = "raises" -> Escaped("ValueError")
           [] catalog_outcome = "no_dataset" -> Escaped("AttributeError")
           [] system_prompt_switcher(prompt_type) = "None" ->
                Escaped("AttributeError")
           [] OTHER -> [prompt |-> system_prompt_switcher(prompt_type)]
    ELSE [prompt |-> "get_system_prompt"]

\* The whole of fetch_dx_tool_suggestions: the prompt, the completion, the
\* telemetry submission inside the try block, then the validation.
fetch_dx_tool_suggestions_call(use_tools_and_descriptions, prompt_type, catalog_outcome, completion, telemetry_outcome) ==
    LET system_prompt ==
            fetch_prompts_with_tools(use_tools_and_descriptions, prompt_type,
                                     catalog_outcome)
    IN  IF "raised" \in DOMAIN system_prompt
        THEN system_prompt
        ELSE IF completion.kind = "api_error"
        THEN ErrorResponse("api")
        ELSE IF telemetry_outcome = "lookup_fails"
        THEN ErrorResponse("structure: deployment")
        ELSE IF telemetry_outcome = "payload_fails"
        THEN ErrorResponse("unexpected")
        ELSE fetch_dx_tool_suggestions(completion)

----------------------------------------------------------------------------
(* frontend/helpers.py *)

\* The dict empty_session_state as the module is loaded.  The keys
\* file_summaries and user_request_buffer are written by nothing the model
\* covers and are left out.
InitialEmptySessionState ==
    [conversation_stage |-> "INITIAL_INPUT",
     user_request |-> <<>>,
     ai_questions |-> <<>>,
     user_answers |-> EmptyDict,
     dx_solution |-> NoneVal,
     chat_history |-> <<>>,
     questions_asked_flag |-> FALSE,
     question_counter |-> 0,
     uploaded_files |-> <<>>,
     file_uploader_key |-> 0,
     use_tools_and_descriptions |-> TRUE]

\* state_empty: every key of the session is bound to the value object of
\* the module-level dict, with no copy.
state_empty(ss, ess) ==
    [k \in DOMAIN ss \cup DOMAIN ess |->
        IF k \in DOMAIN ess THEN ess[k] ELSE ss[k]]

\* clear_data_callback counting on from the key the session had.
clear_data_callback_CountOn(ss, ess) ==
    [state_empty(ss, ess) EXCEPT !.file_uploader_key = ss.file_uploader_key + 1]

clear_data_callback(ss, ess) ==
    LET emptied == state_empty(ss, ess)
    IN  [emptied EXCEPT !.file_uploader_key = emptied.file_uploader_key + 1]

\* The identity keys of a session that state_init has not seen yet.
NoIdentity ==
    [keys |-> {}, generate_user_id_calls |-> 0, user_email_writes |-> 0]

CountUp(n) == IF n < MaxCount THEN n + 1 ELSE n

\* state_init: the default state for a session without conversation_stage;
\* generate_user_id while the session has no key "datarobot_uid" (its
\* result stays in a local variable: no line stores the key); user_email
\* written while the session has no key "user_email".
state_init(ss, ess, id) ==
    [ss |-> IF "conversation_stage" \notin DOMAIN ss
            THEN state_empty(ss, ess) ELSE ss,
     id |-> [keys |-> id.keys \cup {"user_email"},
             generate_user_id_calls |->
                IF "datarobot_uid" \notin id.keys
                THEN CountUp(id.generate_user_id_calls)
                ELSE id.generate_user_id_calls,
             user_email_writes |->
                IF "user_email" \notin id.keys
                THEN CountUp(id.user_email_writes)
                ELSE id.user_email_writes]]

----------------------------------------------------------------------------
(* Chat messages *)

Content(fmt, text, q, files) ==
    [fmt |-> fmt, text |-> text, q |-> q, files |-> files]

ChatCompletionUserMessageParam(content) ==
    [role |-> "user", content |-> content]

ChatCompletionAssistantMessageParam(content) ==
    [role |-> "assistant", content |-> content]

\* initial_user_request + file_context (app.py:254-260)
CombinedInput(initial_user_request, uploaded_files) ==
    Content("request", initial_user_request, "", uploaded_files)

\* ai_response["message"]
MessageContent(message) == Content("message", message, "", <<>>)

\* f"...: {q_text}" (app.py:110)
QuestionContent(q_text) == Content("question", <<>>, q_text, <<>>)

\* f"(... {q_text} ...) {ans_text}" (app.py:159)
AnswerContent(q_text, ans_text) == Content("answer", ans_text, q_text, <<>>)

\* What a handler leaves behind: the session state and how the run goes on
\* ("rerun": st.rerun(); "continue": it returned; "raise": an exception).
Outcome(ss, ctl, ret) == [ss |-> ss, ctl |-> ctl, ret |-> ret]

----------------------------------------------------------------------------
(* frontend/streamlit_utils.py, the handlers of the multi-step frontend *)

\* handel_first_question adding the request to the history it finds.
handel_first_question_KeepHistory(ss, combined_input) ==
    [ss EXCEPT
        !.chat_history =
            Append(@, ChatCompletionUserMessageParam(combined_input)),
        !.conversation_stage = PromptType_DECISION,
        !.questions_asked_flag = FALSE,
        !.ai_questions = <<>>,
        !.user_answers = EmptyDict,
        !.dx_solution = NoneVal,
        !.question_counter = 1]

handel_first_question(ss, combined_input) ==
    [ss EXCEPT
        !.chat_history = <<ChatCompletionUserMessageParam(combined_input)>>,
        !.conversation_stage = PromptType_DECISION,
        !.questions_asked_flag = FALSE,
        !.ai_questions = <<>>,
        !.user_answers = EmptyDict,
        !.dx_solution = NoneVal,
        !.question_counter = 1]

\* handle_ai_response appending the message before it looks for an error.
handle_ai_response_AppendFirst(ss, response) ==
    LET appended ==
            [ss EXCEPT !.chat_history = Append(@,
                ChatCompletionAssistantMessageParam(
                    MessageContent(response["message"])))]
    IN  IF response["type"] = PromptType_QUESTION
           \/ response["type"] = PromptType_SOLUTION
        THEN Outcome(appended, "continue", response["type"])
        ELSE Outcome([appended EXCEPT !.conversation_stage = "INITIAL_INPUT"],
                     "rerun", "INITIAL_INPUT")

handle_ai_response(ss, response) ==
    IF response["type"] = "error"
    THEN Outcome([ss EXCEPT !.conversation_stage = "INITIAL_INPUT"],
                 "rerun", "INITIAL_INPUT")
    ELSE LET appended ==
                [ss EXCEPT !.chat_history = Append(@,
                    ChatCompletionAssistantMessageParam(
                        MessageContent(response["message"])))]
         IN  IF response["type"] = PromptType_QUESTION
                \/ response["type"] = PromptType_SOLUTION
             THEN Outcome(appended, "continue", response["type"])
             ELSE Outcome([appended EXCEPT
                              !.conversation_stage = "INITIAL_INPUT"],
                          "rerun", "INITIAL_INPUT")

\* The question entries appended for ai_questions.
QuestionEntries(questions) ==
    [i \in 1..Len(questions) |->
        ChatCompletionAssistantMessageParam(QuestionContent(questions[i]))]

\* su_handle_questions_response storing the questions without appending
\* them to the history.
su_handle_questions_response_NoEntries(ss, response) ==
    IF "questions" \notin DOMAIN response
    THEN Outcome(ss, "raise", "KeyError")
    ELSE Outcome([ss EXCEPT !.ai_questions = response["questions"],
                            !.conversation_stage = "AWAITING_ANSWERS",
                            !.questions_asked_flag = TRUE],
                 "rerun", "None")

su_handle_questions_response(ss, response) ==
    IF "questions" \notin DOMAIN response
    THEN Outcome(ss, "raise", "KeyError")
    ELSE Outcome([ss EXCEPT
                     !.ai_questions = response["questions"],
                     !.chat_history = @ \o QuestionEntries(response["questions"]),
                     !.conversation_stage = "AWAITING_ANSWERS",
                     !.questions_asked_flag = TRUE],
                 "rerun", "None")

su_handle_solution_response(ss, response) ==
    Outcome([ss EXCEPT !.dx_solution = response,
                       !.conversation_stage = "SHOWING_SOLUTION"],
            "rerun", "None")

\* The keys of a dict filled in the order of s: each value once, at its
\* first place.
KeyOrder(s) ==
    LET F[i \in 0..Len(s)] ==
            IF i = 0 THEN <<>>
            ELSE IF s[i] \in Range(F[i - 1]) THEN F[i - 1]
            ELSE Append(F[i - 1], s[i])
    IN  F[Len(s)]

\* temp_answers of handle_user_answers_form: one text area per question,
\* stored under the question text, so a later question with the same text
\* overwrites the earlier one.
TempAnswers(ai_questions, text_areas) ==
    [q \in Range(ai_questions) |->
        text_areas[CHOOSE i \in 1..Len(ai_questions) :
                      /\ ai_questions[i] = q
                      /\ \A j \in (i + 1)..Len(ai_questions) :
                            ai_questions[j] # q]]

su_update_session_with_answers(ss, temp_answers, user_responses_for_history) ==
    Outcome([ss EXCEPT
                !.user_answers = temp_answers,
                !.chat_history = @ \o user_responses_for_history,
                !.conversation_stage = PromptType_DECISION,
                !.question_counter = @ + 1],
            "rerun", "None")

\* The loop of _process_user_answers breaks at the first blank answer.
AllAnswered(keys, temp_answers) ==
    \A i \in 1..Len(keys) : temp_answers[keys[i]] # <<>>

UserResponsesForHistory(keys, temp_answers) ==
    [i \in 1..Len(keys) |->
        ChatCompletionUserMessageParam(
            AnswerContent(keys[i], temp_answers[keys[i]]))]

su_process_user_answers(ss, keys, temp_answers) ==
    IF AllAnswered(keys, temp_answers)
    THEN su_update_session_with_answers(ss, temp_answers,
            UserResponsesForHistory(keys, temp_answers))
    ELSE Outcome(ss, "continue", "None")

su_handle_user_answers_form(ss, text_areas) ==
    su_process_user_answers(ss, KeyOrder(ss.ai_questions),
                            TempAnswers(ss.ai_questions, text_areas))

----------------------------------------------------------------------------
(* frontend/app.py, the handlers of the single-step frontend *)

handle_first_question(ss, combined_input) ==
    [ss EXCEPT
        !.chat_history = <<ChatCompletionUserMessageParam(combined_input)>>,
        !.conversation_stage = "PROCESSING_INITIAL",
        !.questions_asked_flag = FALSE,
        !.ai_questions = <<>>,
        !.user_answers = EmptyDict,
        !.dx_solution = NoneVal,
        !.question_counter = 1]

\* The solution put together when the question limit is reached.
ForcedSolution(response) ==
    [tools |-> Get(response, "tools", <<Get(response, "tool", DefaultTool)>>),
     primary_tool |->
        Get(response, "primary_tool", Get(response, "tool", DefaultTool)),
     tool_combinations |->
        Get(response, "tool_combinations",
            <<[tool |-> Get(response, "tool", DefaultTool),
               purpose |-> PrimaryPurpose,
               todos |-> Get(response, "todos", DefaultTodos)]>>),
     todos |-> Get(response, "todos", DefaultTodos),
     message |-> <<ForcedNotice>> \o response["message"]]

app_handle_questions_response(ss, response) ==
    IF ss.question_counter >= 5
    THEN Outcome([ss EXCEPT !.dx_solution = ForcedSolution(response),
                            !.conversation_stage = "SHOWING_SOLUTION"],
                 "rerun", "None")
    ELSE IF "questions" \notin DOMAIN response
    THEN Outcome(ss, "raise", "KeyError")
    ELSE Outcome([ss EXCEPT
                     !.ai_questions = response["questions"],
                     !.chat_history = @ \o QuestionEntries(response["questions"]),
                     !.conversation_stage = "AWAITING_ANSWERS",
                     !.questions_asked_flag = TRUE],
                 "rerun", "None")

app_handle_solution_response(ss, response) ==
    Outcome([ss EXCEPT !.dx_solution = response,
                       !.conversation_stage = "SHOWING_SOLUTION"],
            "rerun", "None")

handle_single_step_ai_response(ss, response) ==
    IF response["type"] = "error"
    THEN Outcome([ss EXCEPT !.conversation_stage = "INITIAL_INPUT"],
                 "rerun", "None")
    ELSE LET appended ==
                [ss EXCEPT !.chat_history = Append(@,
                    ChatCompletionAssistantMessageParam(
                        MessageContent(response["message"])))]
         IN  IF response["type"] = "questions"
             THEN app_handle_questions_response(appended, response)
             ELSE IF response["type"] = "solution"
             THEN app_handle_solution_response(appended, response)
             ELSE Outcome([appended EXCEPT
                              !.conversation_stage = "INITIAL_INPUT"],
                          "rerun", "None")

app_update_session_with_answers(ss, temp_answers, user_responses_for_history) ==
    Outcome([ss EXCEPT
                !.user_answers = temp_answers,
                !.chat_history = @ \o user_responses_for_history,
                !.conversation_stage = "PROCESSING_INITIAL",
                !.question_counter = @ + 1],
            "rerun", "None")

app_process_user_answers(ss, keys, temp_answers) ==
    IF AllAnswered(keys, temp_answers)
    THEN app_update_session_with_answers(ss, temp_answers,
            UserResponsesForHistory(keys, temp_answers))
    ELSE Outcome(ss, "continue", "None")

app_handle_user_answers_form(ss, text_areas) ==
    app_process_user_answers(ss, KeyOrder(ss.ai_questions),
                             TempAnswers(ss.ai_questions, text_areas))

----------------------------------------------------------------------------
(* The script run: main() of multistep_qa.py and of app.py *)

\* The state a run works on.
World == [ss |-> session_state, ess |-> empty_session_state,
          fu |-> file_uploader, pc |-> pc, id |-> identity]

\* The first line of main(): await state_init().
StateInit(w) ==
    LET r == state_init(w.ss, w.ess, w.id)
    IN  [w EXCEPT !.ss = r.ss, !.id = r.id]

\* session_state.uploaded_files and empty_session_state["uploaded_files"]
\* are one dict object (state_empty binds the key to it), so a change made
\* in place through the session shows in both.
SetUploadedFiles(w, files) ==
    [w EXCEPT !.ss.uploaded_files = files, !.ess.uploaded_files = files]

\* uploaded_files[name] = file_info: a new name goes last, a known one
\* keeps its place.
AddFile(files, f) == IF f \in Range(files) THEN files ELSE Append(files, f)

\* del uploaded_files[name]
DelFile(files, f) == SelectSeq(files, LAMBDA g : g # f)

\* The file_uploader block: a widget drawn under a new key is a new, empty
\* widget; the file the widget holds is stored on every run.
UploaderBlock(w) ==
    LET fu == IF w.fu.key = w.ss.file_uploader_key THEN w.fu
              ELSE [key |-> w.ss.file_uploader_key, file |-> NoFile]
        drawn == [w EXCEPT !.fu = fu]
    IN  IF fu.file # NoFile
        THEN SetUploadedFiles(drawn, AddFile(drawn.ss.uploaded_files, fu.file))
        ELSE drawn

\* bool(dx_solution)
Truthy(d) == d # NoneVal /\ DOMAIN d # {}

\* The end of a run: which of the later widgets are on the page.
EndOfRun(w, form) ==
    [w EXCEPT !.pc =
        IF w.ss.conversation_stage = "SHOWING_SOLUTION" /\ Truthy(w.ss.dx_solution)
        THEN "page_restart"
        ELSE IF form THEN "page_form" ELSE "page"]

\* A run ended by an uncaught exception.
Raised(w) == [w EXCEPT !.pc = "page"]

\* await fetch_dx_tool_suggestions(..., prompt_type=prompt_type): the run
\* waits for the model at step, unless fetch_prompts_with_tools raises with
\* the catalog fetched.
AwaitModel(w, prompt_type, step) ==
    IF "raised" \in DOMAIN fetch_prompts_with_tools(
                              w.ss.use_tools_and_descriptions, prompt_type, "ok")
    THEN Raised(w)
    ELSE [w EXCEPT !.pc = step]

\* multistep_qa.py from the solution step on.
MultiSolutionStep(w, form) ==
    IF w.ss.conversation_stage = PromptType_SOLUTION
       \/ w.ss.question_counter > MAX_QUESTION_ROUNDS
    THEN AwaitModel(w, w.ss.conversation_stage, "fetch_solution")
    ELSE EndOfRun(w, form)

\* multistep_qa.py: the answers block with no form submitted.
MultiAwaitingStep(w) ==
    IF w.ss.conversation_stage = "AWAITING_ANSWERS"
    THEN IF Len(w.ss.chat_history) < 1 + Len(w.ss.ai_questions)
         THEN Raised(w)
         ELSE MultiSolutionStep(w, TRUE)
    ELSE MultiSolutionStep(w, FALSE)

\* MultiQuestionStep asking for questions in one round more.
MultiQuestionStep_OneMoreRound(w) ==
    IF w.ss.conversation_stage = PromptType_QUESTION
       /\ w.ss.question_counter <= MAX_QUESTION_ROUNDS + 1
    THEN AwaitModel(w, w.ss.conversation_stage, "fetch_question")
    ELSE MultiAwaitingStep(w)

\* multistep_qa.py from the question step on.
MultiQuestionStep(w) ==
    IF w.ss.conversation_stage = PromptType_QUESTION
       /\ w.ss.question_counter <= MAX_QUESTION_ROUNDS
    THEN AwaitModel(w, w.ss.conversation_stage, "fetch_question")
    ELSE MultiAwaitingStep(w)

\* multistep_qa.py from the decision step on.
MultiStages(w) ==
    IF w.ss.conversation_stage = PromptType_DECISION
    THEN AwaitModel(w, w.ss.conversation_stage, "fetch_decision")
    ELSE MultiQuestionStep(w)

\* The prompt_type of the decision step of app.py.
SingleDecisionPromptType(use_multiple_system_prompts) ==
    IF use_multiple_system_prompts THEN PromptType_DECISION ELSE "None"

\* app.py from the decision step on.  The decision step reads
\* use_multiple_system_prompts, a key that only the callback of its
\* checkbox writes.  app.py defines no MAX_QUESTION_ROUNDS: the question
\* step raises NameError when the stage is "questions", and the solution
\* step raises it unless the stage is "solution".
SingleStages(w) ==
    IF w.ss.conversation_stage = PromptType_DECISION
    THEN IF "use_multiple_system_prompts" \in DOMAIN w.ss
         THEN AwaitModel(w,
                  SingleDecisionPromptType(w.ss.use_multiple_system_prompts),
                  "fetch_decision")
         ELSE Raised(w)
    ELSE IF w.ss.conversation_stage = PromptType_QUESTION
    THEN Raised(w)
    ELSE IF w.ss.conversation_stage = PromptType_SOLUTION
    THEN AwaitModel(w, w.ss.conversation_stage, "fetch_solution")
    ELSE Raised(w)

Stages(w) == IF variant = "multi" THEN MultiStages(w) ELSE SingleStages(w)

\* A run in which no button is pressed.
Run(w) == Stages(UploaderBlock(StateInit(w)))

\* How a run goes on after a handler that reruns, raises or returns.
After(w, outcome, continued) ==
    LET w1 == [w EXCEPT !.ss = outcome.ss]
    IN  CASE outcome.ctl = "rerun" -> Run(w1)
          [] outcome.ctl = "raise" -> Raised(w1)
          [] outcome.ctl = "continue" -> continued

OnPage == pc \in {"page", "page_form", "page_restart"}

\* The restart button after a run: a run that finishes leaves it on the
\* page only if it drew it; while a run waits for the model, what the
\* page showed before stays on it.
RestartButtonAfter(w) ==
    IF w.pc = "page_restart" THEN "shown"
    ELSE IF w.pc \in {"page", "page_form"} THEN "absent"
    ELSE restart_button

Commit(w, op) ==
    /\ session_state' = w.ss
    /\ empty_session_state' = w.ess
    /\ file_uploader' = w.fu
    /\ pc' = w.pc
    /\ identity' = w.id
    /\ restart_button' = RestartButtonAfter(w)
    /\ last_op' = op
    /\ UNCHANGED <<variant, raw_response, ai_response, catalog, telemetry>>

----------------------------------------------------------------------------
(* Inputs *)

\* What the user types: nothing, or some text.
RequestTexts == {<<>>, <<"r">>}
AnswerTexts == {<<>>, <<"a">>}

\* The completions the conversation is run with: an API error, questions
\* (none, two with the same text, two different ones), a solution in the
\* new and in the legacy shape, and an object of another type.
ModelAnswers ==
    {Completion("api_error", EmptyDict),
     Completion("json", [type |-> "decision", message |-> <<"m">>])} \cup
    {Completion("json", [type |-> "questions", message |-> <<"m">>,
                         questions |-> qs]) :
        qs \in {<<>>, <<"q1", "q1">>, <<"q1", "q2">>}} \cup
    {Completion("json", [type |-> "solution", message |-> <<"m">>,
                         tools |-> <<"T1", "T2">>, primary_tool |-> "T2",
                         todos |-> <<"t1">>]),
     Completion("json", [type |-> "solution", message |-> <<"m">>,
                         tool |-> "T1", todos |-> <<"t1">>])}

----------------------------------------------------------------------------
(* Actions *)

\* The session after its first run: state_init on a session without keys,
\* and the page of INITIAL_INPUT.
Init ==
    /\ variant \in {"single", "multi"}
    /\ empty_session_state = InitialEmptySessionState
    /\ session_state =
            state_init(EmptyDict, InitialEmptySessionState, NoIdentity).ss
    /\ identity =
            state_init(EmptyDict, InitialEmptySessionState, NoIdentity).id
    /\ file_uploader = [key |-> 0, file |-> NoFile]
    /\ pc = "page"
    /\ restart_button = "absent"
    /\ last_op = "state_init"
    /\ raw_response = NoneVal
    /\ ai_response = NoneVal
    /\ catalog = "none"
    /\ telemetry = "none"

\* The user puts a file into the uploader, or takes it out.
UploadFile(f) ==
    /\ OnPage
    /\ f # file_uploader.file
    /\ Commit(Run([World EXCEPT !.fu.file = f]), "UploadFile")

\* The user presses the delete button of an uploaded file.
DeleteFile(f) ==
    /\ OnPage
    /\ f \in Range(session_state.uploaded_files)
    /\ LET w1 == UploaderBlock(StateInit(World))
       IN  Commit(Run(SetUploadedFiles(w1, DelFile(w1.ss.uploaded_files, f))),
                  "DeleteFile")

\* The user presses the submit button of the first request, with some text
\* in the text area or with none ("SubmitFirstRequestEmpty").
SubmitFirstRequest(initial_user_request) ==
    /\ OnPage
    /\ LET w1 == UploaderBlock(StateInit(World))
           combined_input ==
               CombinedInput(initial_user_request, w1.ss.uploaded_files)
           ss1 == [w1.ss EXCEPT !.user_request = combined_input]
           first == IF variant = "multi"
                    THEN handel_first_question(ss1, combined_input)
                    ELSE handle_first_question(ss1, combined_input)
       IN  IF initial_user_request # <<>>
           THEN Commit(Run([w1 EXCEPT !.ss = first]), "SubmitFirstRequest")
           ELSE Commit(Stages(w1), "SubmitFirstRequestEmpty")

\* The user submits the answers form, with some text area left blank
\* ("SubmitAnswersBlank") or with all of them filled in.
SubmitAnswers(text_areas) ==
    /\ pc = "page_form"
    /\ LET w1 == UploaderBlock(StateInit(World))
           op == IF \E i \in DOMAIN text_areas : text_areas[i] = <<>>
                 THEN "SubmitAnswersBlank" ELSE "SubmitAnswers"
       IN  IF variant = "multi"
           THEN Commit(After(w1, su_handle_user_answers_form(w1.ss, text_areas),
                             MultiSolutionStep(w1, TRUE)),
                       op)
           ELSE Commit(After(w1, app_handle_user_answers_form(w1.ss, text_areas),
                             SingleStages(w1)),
                       op)

\* The user presses the restart button: clear_data_callback, then the run.
Restart ==
    /\ pc = "page_restart"
    /\ Commit(Run([World EXCEPT !.ss =
                      clear_data_callback(session_state, empty_session_state)]),
              "Restart")

\* The decision step from the return of fetch_dx_tool_suggestions on.
DecisionStep(w, response) ==
    IF variant = "multi"
    THEN LET o == handle_ai_response(w.ss, response)
         IN  After(w, o,
                   MultiQuestionStep([w EXCEPT !.ss =
                       [o.ss EXCEPT !.conversation_stage = o.ret]]))
    ELSE LET o == handle_single_step_ai_response(w.ss, response)
         IN  After(w, o,
                   Raised([w EXCEPT !.ss =
                       [o.ss EXCEPT !.conversation_stage = o.ret]]))

\* The model call of the decision step returns.
DecisionResponse(completion) ==
    /\ pc = "fetch_decision"
    /\ Commit(DecisionStep(World, fetch_dx_tool_suggestions(completion)),
              "DecisionResponse")

\* The model call of the question step returns.
QuestionResponse(completion) ==
    /\ pc = "fetch_question"
    /\ LET response == fetch_dx_tool_suggestions(completion)
           o == IF variant = "multi"
                THEN su_handle_questions_response(session_state, response)
                ELSE app_handle_questions_response(session_state, response)
       IN  Commit(After(World, o, Raised(World)), "QuestionResponse")

\* The model call of the solution step returns.
SolutionResponse(completion) ==
    /\ pc = "fetch_solution"
    /\ LET response == fetch_dx_tool_suggestions(completion)
       IN  IF variant = "multi"
           THEN Commit(After(World,
                             su_handle_solution_response(session_state, response),
                             Raised(World)),
                       "SolutionResponse")
           ELSE Commit(EndOfRun([World EXCEPT
                                    !.ss.dx_solution = response,
                                    !.ss.conversation_stage = "SHOWING_SOLUTION"],
                                FALSE),
                       "SolutionResponse")

Next ==
    \/ \E f \in Files \cup {NoFile} : UploadFile(f)
    \/ \E f \in Files : DeleteFile(f)
    \/ \E t \in RequestTexts : SubmitFirstRequest(t)
    \/ \E a \in [1..Len(session_state.ai_questions) -> AnswerTexts] :
          SubmitAnswers(a)
    \/ Restart
    \/ \E c \in ModelAnswers : DecisionResponse(c)
    \/ \E c \in ModelAnswers : QuestionResponse(c)
    \/ \E c \in ModelAnswers : SolutionResponse(c)

Spec == Init /\ [][Next]_vars

----------------------------------------------------------------------------
(* The conversation with its collaborators failing and with the restart
   button pressed while a model call is awaited; no files are uploaded *)

\* The completions of ModelAnswers, and a solution whose primary_tool is
\* none of its tools.
FaultAnswers ==
    ModelAnswers \cup
    {Completion("json", [type |-> "solution", message |-> <<"m">>,
                         tools |-> <<"T1">>, primary_tool |-> "T3",
                         todos |-> <<"t1">>])}

Fetching == pc \in {"fetch_decision", "fetch_question", "fetch_solution"}

\* fetch_prompts_with_tools raises: the exception leaves
\* fetch_dx_tool_suggestions and main, and ends the run.
CatalogFailure(catalog_outcome) ==
    /\ Fetching
    /\ restart_button # "clicked"
    /\ "raised" \in DOMAIN fetch_prompts_with_tools(
                               session_state.use_tools_and_descriptions,
                               session_state.conversation_stage,
                               catalog_outcome)
    /\ Commit(Raised(World), "CatalogFailure")

\* The restart button of the page shown before is pressed while the run
\* waits for the model: the click waits for the script thread.
ClickRestart ==
    /\ Fetching
    /\ restart_button = "shown"
    /\ restart_button' = "clicked"
    /\ last_op' = "ClickRestart"
    /\ UNCHANGED <<variant, session_state, empty_session_state, file_uploader,
                   pc, raw_response, ai_response, catalog, telemetry, identity>>

\* What the handler of the awaited call writes into the session.
Written(w, response) ==
    CASE w.pc = "fetch_decision" ->
            IF variant = "multi"
            THEN handle_ai_response(w.ss, response).ss
            ELSE handle_single_step_ai_response(w.ss, response).ss
      [] w.pc = "fetch_question" ->
            IF variant = "multi"
            THEN su_handle_questions_response(w.ss, response).ss
            ELSE app_handle_questions_response(w.ss, response).ss
      [] w.pc = "fetch_solution" ->
            IF variant = "multi"
            THEN su_handle_solution_response(w.ss, response).ss
            ELSE [w.ss EXCEPT !.dx_solution = response,
                              !.conversation_stage = "SHOWING_SOLUTION"]

\* LateResponseRun with the click lost when the run is stopped.
LateResponseRun_ClickLost(w, stopped_ss) ==
    Run([w EXCEPT !.ss = stopped_ss])

\* A run stopped for a pressed restart button, with stopped_ss written so
\* far: the next run starts with the button's on_click callback.
LateResponseRun(w, stopped_ss) ==
    Run([w EXCEPT !.ss = clear_data_callback(stopped_ss, w.ess)])

\* The awaited call returns after the restart button was pressed.  The run
\* is stopped at its next element command, before or after the handler
\* has written.
LateResponse(completion) ==
    /\ Fetching
    /\ restart_button = "clicked"
    /\ \E stopped_ss \in
            {session_state,
             Written(World, fetch_dx_tool_suggestions(completion))} :
          Commit(LateResponseRun(World, stopped_ss), "LateResponse")

NextFaults ==
    \/ \E t \in RequestTexts : SubmitFirstRequest(t)
    \/ \E a \in [1..Len(session_state.ai_questions) -> AnswerTexts] :
          SubmitAnswers(a)
    \/ Restart
    \/ \E c \in FaultAnswers : restart_button # "clicked" /\ DecisionResponse(c)
    \/ \E c \in FaultAnswers : restart_button # "clicked" /\ QuestionResponse(c)
    \/ \E c \in FaultAnswers : restart_button # "clicked" /\ SolutionResponse(c)
    \/ \E o \in CatalogOutcomes : CatalogFailure(o)
    \/ ClickRestart
    \/ \E c \in FaultAnswers : LateResponse(c)

SpecFaults == Init /\ [][NextFaults]_vars

----------------------------------------------------------------------------
(* The conversation with uploads, run with fewer completions *)

\* An API error, two different questions, and a solution in the new shape.
UploadAnswers ==
    {Completion("api_error", EmptyDict),
     Completion("json", [type |-> "questions", message |-> <<"m">>,
                         questions |-> <<"q1", "q2">>]),
     Completion("json", [type |-> "solution", message |-> <<"m">>,
                         tools |-> <<"T1", "T2">>, primary_tool |-> "T2",
                         todos |-> <<"t1">>])}

NextUploads ==
    \/ \E f \in Files \cup {NoFile} : UploadFile(f)
    \/ \E f \in Files : DeleteFile(f)
    \/ \E t \in RequestTexts : SubmitFirstRequest(t)
    \/ \E a \in [1..Len(session_state.ai_questions) -> AnswerTexts] :
          SubmitAnswers(a)
    \/ Restart
    \/ \E c \in UploadAnswers : DecisionResponse(c)
    \/ \E c \in UploadAnswers : QuestionResponse(c)
    \/ \E c \in UploadAnswers : SolutionResponse(c)

SpecUploads == Init /\ [][NextUploads]_vars

----------------------------------------------------------------------------
(* The response validation on its own: every completion, validated once *)

InitValidator ==
    /\ variant \in {"single", "multi"}
    /\ empty_session_state = InitialEmptySessionState
    /\ session_state = state_empty(InitialEmptySessionState, InitialEmptySessionState)
    /\ file_uploader = [key |-> 0, file |-> NoFile]
    /\ pc = "fetch"
    /\ last_op = "state_init"
    /\ raw_response \in RawResponses
    /\ ai_response = NoneVal
    /\ catalog = "ok"
    /\ telemetry = "ok"
    /\ identity = NoIdentity
    /\ restart_button = "absent"

Validate ==
    /\ pc = "fetch"
    /\ ai_response' = fetch_dx_tool_suggestions(raw_response)
    /\ pc' = "fetched"
    /\ last_op' = "fetch_dx_tool_suggestions"
    /\ UNCHANGED <<variant, session_state, empty_session_state, file_uploader,
                   raw_response, catalog, telemetry, identity, restart_button>>

NextValidator == Validate

SpecValidator == InitValidator /\ [][NextValidator]_vars

----------------------------------------------------------------------------
(* fetch_dx_tool_suggestions with its collaborators: every completion, with
   every outcome of the catalog fetch and of the telemetry submission *)

InitCall ==
    /\ variant \in {"single", "multi"}
    /\ empty_session_state = InitialEmptySessionState
    /\ session_state =
            [state_empty(InitialEmptySessionState, InitialEmptySessionState)
                EXCEPT !.conversation_stage = PromptType_DECISION]
    /\ file_uploader = [key |-> 0, file |-> NoFile]
    /\ pc = "call"
    /\ last_op = "state_init"
    /\ raw_response \in RawResponses
    /\ ai_response = NoneVal
    /\ catalog \in CatalogOutcomes
    /\ telemetry \in TelemetryOutcomes
    /\ identity = NoIdentity
    /\ restart_button = "absent"

Call ==
    /\ pc = "call"
    /\ ai_response' =
            fetch_dx_tool_suggestions_call(
                session_state.use_tools_and_descriptions,
                session_state.conversation_stage,
                catalog, raw_response, telemetry)
    /\ pc' = "called"
    /\ last_op' = "fetch_dx_tool_suggestions"
    /\ UNCHANGED <<variant, session_state, empty_session_state, file_uploader,
                   raw_response, catalog, telemetry, identity, restart_button>>

NextCall == Call

SpecCall == InitCall /\ [][NextCall]_vars

----------------------------------------------------------------------------
(* The choice of the system prompt on its own: every call site of
   fetch_dx_tool_suggestions, with every setting of the two checkboxes *)

\* The stages in which main() calls fetch_dx_tool_suggestions.
CallingStages == {PromptType_DECISION, PromptType_QUESTION, PromptType_SOLUTION}

\* The prompt_type a call site passes: the decision step of app.py goes by
\* use_multiple_system_prompts, every other call site passes
\* conversation_stage.
PromptTypeOfCall(v, ss) ==
    IF v = "single" /\ ss.conversation_stage = PromptType_DECISION
    THEN SingleDecisionPromptType(ss.use_multiple_system_prompts)
    ELSE ss.conversation_stage

InitPrompt ==
    /\ variant \in {"single", "multi"}
    /\ empty_session_state = InitialEmptySessionState
    /\ \E stage \in CallingStages, tools \in BOOLEAN, multiple \in BOOLEAN,
          counter \in 1..MAX_QUESTION_ROUNDS :
          session_state =
            [k \in DOMAIN InitialEmptySessionState
                      \cup {"use_multiple_system_prompts"} |->
                CASE k = "conversation_stage" -> stage
                  [] k = "use_tools_and_descriptions" -> tools
                  [] k = "use_multiple_system_prompts" -> multiple
                  [] k = "question_counter" -> counter
                  [] OTHER -> InitialEmptySessionState[k]]
    /\ file_uploader = [key |-> 0, file |-> NoFile]
    /\ pc = "prompt"
    /\ last_op = "state_init"
    /\ raw_response = NoneVal
    /\ ai_response = NoneVal
    /\ catalog \in CatalogOutcomes
    /\ telemetry = "none"
    /\ identity = NoIdentity
    /\ restart_button = "absent"

\* fetch_prompts_with_tools as the call of the stage makes it.
SelectPrompt ==
    /\ pc = "prompt"
    /\ ai_response' =
            fetch_prompts_with_tools(session_state.use_tools_and_descriptions,
                                     PromptTypeOfCall(variant, session_state),
                                     catalog)
    /\ pc' = "prompted"
    /\ last_op' = "fetch_prompts_with_tools"
    /\ UNCHANGED <<variant, session_state, empty_session_state, file_uploader,
                   raw_response, catalog, telemetry, identity, restart_button>>

NextPrompt == SelectPrompt

SpecPrompt == InitPrompt /\ [][NextPrompt]_vars

----------------------------------------------------------------------------
(* Properties *)

Stage == session_state.conversation_stage
Counter == session_state.question_counter
History == session_state.chat_history

\* C1: question_counter never decreases from one state to the next, except
\* at clear_data_callback, which sets it to 0.
C1_RoundMonotonic ==
    [][\/ session_state'.question_counter >= session_state.question_counter
       \/ last_op' = "Restart" /\ session_state'.question_counter = 0]_vars

\* C2: a response that brings questions while question_counter >= 5 never
\* leads to AWAITING_ANSWERS (it leads to SHOWING_SOLUTION), in both
\* frontends.
C2_ForcedTermination ==
    [][(/\ session_state.question_counter >= MAX_QUESTION_ROUNDS
        /\ last_op' \in {"DecisionResponse", "QuestionResponse"}
        /\ session_state'.conversation_stage
              \in {"AWAITING_ANSWERS", "SHOWING_SOLUTION"})
       => session_state'.conversation_stage = "SHOWING_SOLUTION"]_vars

\* C3: no handling of a model response appends to chat_history and sends
\* the stage back to INITIAL_INPUT.
C3_AtomicTransition ==
    [][(/\ last_op' \in {"DecisionResponse", "QuestionResponse",
                         "SolutionResponse"}
        /\ session_state'.conversation_stage = "INITIAL_INPUT")
       => session_state'.chat_history = session_state.chat_history]_vars

\* The validated completion was a solution object with "tool" and "todos"
\* and without "tools".
LegacyInput ==
    /\ pc = "fetched"
    /\ raw_response.kind = "json"
    /\ "type" \in DOMAIN raw_response.content
    /\ raw_response.content["type"] = "solution"
    /\ "tool" \in DOMAIN raw_response.content
    /\ "todos" \in DOMAIN raw_response.content
    /\ "tools" \notin DOMAIN raw_response.content

Has(d, k, v) == k \in DOMAIN d /\ d[k] = v

SynthesizedCombinations ==
    <<[tool |-> raw_response.content["tool"],
       purpose |-> PrimaryPurpose,
       todos |-> raw_response.content["todos"]]>>

\* C4 as claimed: every solution object with "tool" and "todos" and without
\* "tools" comes back with tools = [tool], primary_tool = tool and the one
\* synthesized tool_combinations entry.
C4_EveryLegacyPayload ==
    LegacyInput =>
        /\ Has(ai_response, "tools", <<raw_response.content["tool"]>>)
        /\ Has(ai_response, "primary_tool", raw_response.content["tool"])
        /\ Has(ai_response, "tool_combinations", SynthesizedCombinations)

\* C4, amended: every solution object with a message, "tool" and "todos"
\* and without "tools" comes back with tools = [tool] and primary_tool =
\* tool; its tool_combinations is the one synthesized entry when the object
\* brought none, and the one it brought otherwise.
C4_LegacyNormalization ==
    (LegacyInput /\ "message" \in DOMAIN raw_response.content) =>
        /\ Has(ai_response, "tools", <<raw_response.content["tool"]>>)
        /\ Has(ai_response, "primary_tool", raw_response.content["tool"])
        /\ Has(ai_response, "tool_combinations",
               Get(raw_response.content, "tool_combinations",
                   SynthesizedCombinations))

C4_Witness ==
    /\ LegacyInput
    /\ "message" \in DOMAIN raw_response.content
    /\ "tool_combinations" \notin DOMAIN raw_response.content
    /\ Has(raw_response.content, "primary_tool", "T2")
    /\ Has(ai_response, "primary_tool", "T1")
    /\ Has(ai_response, "tool_combinations", SynthesizedCombinations)

\* C5: a response returned with type "questions" carries a non-empty
\* questions sequence.
C5_FailClosedQuestions ==
    (pc = "fetched" /\ Has(ai_response, "type", "questions")) =>
        /\ "questions" \in DOMAIN ai_response
        /\ Len(ai_response["questions"]) > 0

\* C6: in every reachable state, clear_data_callback run twice leaves the
\* session state that running it once leaves.
C6_IdempotentReset ==
    clear_data_callback(
        clear_data_callback(session_state, empty_session_state),
        empty_session_state)
    = clear_data_callback(session_state, empty_session_state)

\* A second restart of a session, with a conversation and an upload behind.
C6_Witness ==
    /\ last_op = "Restart"
    /\ file_uploader.file # NoFile
    /\ session_state.uploaded_files # <<>>
    /\ session_state.file_uploader_key = 1
    /\ session_state = clear_data_callback(session_state, empty_session_state)

\* C7: an answers form submitted with a blank text area changes none of
\* conversation_stage, chat_history, question_counter and user_answers.
C7_AnswerGating ==
    [][last_op' = "SubmitAnswersBlank" =>
        /\ session_state'.conversation_stage = session_state.conversation_stage
        /\ session_state'.chat_history = session_state.chat_history
        /\ session_state'.question_counter = session_state.question_counter
        /\ session_state'.user_answers = session_state.user_answers]_vars

\* C8: the stage a first request or a complete answer leaves is one the
\* decision step takes up: with the session in the processing stage a
\* model call is under way.
C8_ProcessingCallsModel ==
    Stage \in {"PROCESSING_INITIAL", PromptType_DECISION}
        => pc = "fetch_decision"

\* C9: right after clear_data_callback the session is the fresh default.
C9_ResetIsFresh ==
    last_op = "Restart" =>
        /\ Stage = "INITIAL_INPUT"
        /\ History = <<>>
        /\ Counter = 0
        /\ session_state.dx_solution = NoneVal
        /\ session_state.uploaded_files = <<>>

\* C10: every clear_data_callback leaves file_uploader_key different from
\* what it was.
C10_ResetRekeys ==
    [][last_op' = "Restart" =>
        session_state'.file_uploader_key # session_state.file_uploader_key]_vars

\* C11: state_init on a session that has its conversation state changes
\* none of the conversation fields, the user id has been derived at most
\* once, and user_email has been written at most once.
C11_IdempotentInit ==
    /\ state_init(session_state, empty_session_state, identity).ss
          = session_state
    /\ identity.generate_user_id_calls <= 1
    /\ identity.user_email_writes <= 1

\* A second session of the same process, initialised by state_init and
\* idle since: each of its keys is bound to the value object of
\* empty_session_state.
OtherSession ==
    state_init(EmptyDict, empty_session_state, NoIdentity).ss

\* C12: no step of this session changes a conversation field of the other
\* session.
C12_SessionIsolation ==
    [][OtherSession' = OtherSession]_vars

C14_SolutionInvariant ==
    (Truthy(session_state.dx_solution)
        /\ Has(session_state.dx_solution, "type", "solution")) =>
        /\ "tools" \in DOMAIN session_state.dx_solution
        /\ Len(session_state.dx_solution["tools"]) > 0
        /\ "primary_tool" \in DOMAIN session_state.dx_solution
        /\ session_state.dx_solution["primary_tool"]
              \in Range(session_state.dx_solution["tools"])

\* The completions that fetch_dx_tool_suggestions answers with an error:
\* an API failure, text that is no JSON, JSON without type or message, and
\* a solution without its fields.
ErrorCompletions ==
    {Completion("api_error", EmptyDict),
     Completion("bad_json", EmptyDict),
     Completion("not_dict", EmptyDict),
     Completion("json", [message |-> <<"m">>]),
     Completion("json", [type |-> "solution"]),
     Completion("json", [type |-> "solution", message |-> <<"m">>,
                         todos |-> <<"t1">>]),
     Completion("json", [type |-> "solution", message |-> <<"m">>,
                         tools |-> <<"T1", "T2">>])}

\* C15: whenever the call of the decision step, the call made in the
\* processing stage, is answered with an error, the run leaves the stage
\* INITIAL_INPUT, question_counter as it was and chat_history as it was.
C15_ErrorRecovery ==
    pc = "fetch_decision" =>
        \A c \in ErrorCompletions :
            LET response == fetch_dx_tool_suggestions(c)
                w == DecisionStep(World, response)
            IN  /\ response["type"] = "error"
                /\ w.ss.conversation_stage = "INITIAL_INPUT"
                /\ w.ss.question_counter = Counter
                /\ w.ss.chat_history = History

\* The decision call of the second round failed: the answers are the last
\* entries of the history.
C15_Witness ==
    /\ last_op = "DecisionResponse"
    /\ Stage = "INITIAL_INPUT"
    /\ Counter = 2
    /\ Len(History) > 1
    /\ History[Len(History)].role = "user"

\* C16: a JSON object whose type is neither "questions" nor "solution"
\* comes back from fetch_dx_tool_suggestions as an error.
C16_UnrecognizedDiscriminator ==
    (/\ pc = "fetched"
     /\ raw_response.kind = "json"
     /\ "type" \in DOMAIN raw_response.content
     /\ raw_response.content["type"] \notin {"questions", "solution"})
    => Has(ai_response, "type", "error")

\* C17: a failed catalog fetch sends the conversation back to
\* INITIAL_INPUT.
C17_CatalogFailureIsError ==
    [][last_op' = "CatalogFailure" =>
        session_state'.conversation_stage = "INITIAL_INPUT"]_vars

\* C18: with the catalog fetched and a completion that passes the
\* validation, fetch_dx_tool_suggestions returns what the validation
\* gives, however the telemetry submission went.
C18_TelemetryNeverAffects ==
    (/\ pc = "called"
     /\ catalog = "ok"
     /\ \/ Has(fetch_dx_tool_suggestions(raw_response), "type", "questions")
        \/ Has(fetch_dx_tool_suggestions(raw_response), "type", "solution"))
    => ai_response = fetch_dx_tool_suggestions(raw_response)

\* C19: with a solution stored and more rounds counted than there are, no step
\* other than a reset changes dx_solution or has a model call under way.
C19_ForcedSolutionTerminal ==
    [][(/\ session_state.conversation_stage = "SHOWING_SOLUTION"
        /\ Truthy(session_state.dx_solution)
        /\ session_state.question_counter > MAX_QUESTION_ROUNDS
        /\ last_op' # "Restart")
       => /\ session_state'.dx_solution = session_state.dx_solution
          /\ ~Fetching']_vars

IsPrefix(a, b) == Len(a) <= Len(b) /\ SubSeq(b, 1, Len(a)) = a

\* C20: every step other than a reset leaves a chat_history that the
\* history before it is a prefix of.
C20_HistoryAppendOnly ==
    [][last_op' # "Restart" =>
        IsPrefix(session_state.chat_history, session_state'.chat_history)]_vars

\* C21: ai_questions is non-empty only in the stage AWAITING_ANSWERS.
C21_PendingQuestionsOnlyAwaiting ==
    session_state.ai_questions # <<>> => Stage = "AWAITING_ANSWERS"

\* C22: dx_solution is present only in the stage SHOWING_SOLUTION, and no
\* step other than a reset changes a dx_solution that is present.
C22_SolutionPresentAndImmutable ==
    [][/\ session_state'.dx_solution # NoneVal
            => session_state'.conversation_stage = "SHOWING_SOLUTION"
       /\ (session_state.dx_solution # NoneVal /\ last_op' # "Restart")
            => session_state'.dx_solution = session_state.dx_solution]_vars

\* C23: in the stage SHOWING_SOLUTION the stored dx_solution is a solution
\* object with its message, tools and todos.
C23_NoPartialSolution ==
    Stage = "SHOWING_SOLUTION" =>
        /\ Has(session_state.dx_solution, "type", "solution")
        /\ {"message", "tools", "todos"} \subseteq DOMAIN session_state.dx_solution

\* The prompt of the three that belongs to a stage.
PromptOfStage(stage) ==
    CASE stage = PromptType_DECISION -> "get_system_prompt_for_decision"
      [] stage = PromptType_QUESTION -> "get_system_prompt_for_questions"
      [] stage = PromptType_SOLUTION -> "get_system_prompt_for_solution"

C25_OneRoundTripPerAction ==
    [][last_op' \in {"DecisionResponse", "QuestionResponse", "SolutionResponse"}
        => ~Fetching']_vars

\* C26: a first request submitted with text leaves chat_history with the
\* one user message of that text and the uploaded files, question_counter
\* 1, no ai_questions, no user_answers, no dx_solution and the processing
\* stage of the frontend; one submitted without text leaves the session
\* state as it was.
C26_FirstRequestSeeding ==
    [][/\ last_op' = "SubmitFirstRequest" =>
            /\ \E t \in RequestTexts \ {<<>>} :
                  session_state'.chat_history =
                    <<ChatCompletionUserMessageParam(
                        CombinedInput(t, session_state'.uploaded_files))>>
            /\ session_state'.question_counter = 1
            /\ session_state'.ai_questions = <<>>
            /\ session_state'.user_answers = EmptyDict
            /\ session_state'.dx_solution = NoneVal
            /\ session_state'.conversation_stage =
                  IF variant = "multi" THEN PromptType_DECISION
                  ELSE "PROCESSING_INITIAL"
       /\ last_op' = "SubmitFirstRequestEmpty" =>
            session_state' = session_state]_vars

\* A first request submitted with an uploaded file, in a session that was
\* reset before.
C26_Witness ==
    /\ last_op = "SubmitFirstRequest"
    /\ session_state.file_uploader_key = 1
    /\ Len(History) = 1
    /\ History[1].role = "user"
    /\ History[1].content.text # <<>>
    /\ History[1].content.files # <<>>
    /\ Counter = 1
    /\ pc = "fetch_decision"

\* C27: an answers form submitted with every text area filled in appends
\* one user message per pending question, in the order of ai_questions,
\* adds 1 to question_counter and leaves the processing stage of the
\* frontend.
C27_CompleteAnswerSubmission ==
    [][last_op' = "SubmitAnswers" =>
        /\ Len(session_state'.chat_history)
              = Len(session_state.chat_history) + Len(session_state.ai_questions)
        /\ IsPrefix(session_state.chat_history, session_state'.chat_history)
        /\ \A i \in 1..Len(session_state.ai_questions) :
              LET entry == session_state'.chat_history[
                              Len(session_state.chat_history) + i]
              IN  /\ entry.role = "user"
                  /\ entry.content.fmt = "answer"
                  /\ entry.content.q = session_state.ai_questions[i]
        /\ session_state'.question_counter = session_state.question_counter + 1
        /\ session_state'.conversation_stage =
              IF variant = "multi" THEN PromptType_DECISION
              ELSE "PROCESSING_INITIAL"]_vars

\* C28: with more than MAX_QUESTION_ROUNDS rounds counted, a page that
\* waits for the user is the page of SHOWING_SOLUTION with the solution
\* drawn on it.
C28_NoLoopPastBudget ==
    (Counter > MAX_QUESTION_ROUNDS /\ OnPage) =>
        /\ Stage = "SHOWING_SOLUTION"
        /\ pc = "page_restart"

\* C29: question_counter is between 0 and 5 in the single-step frontend
\* and between 0 and 6 in the multi-step one, and while answers are
\* awaited it is at most 4 and at most 5: the rounds of questions between
\* a first request and its solution are no more than that.
C29_RoundCounterBound ==
    /\ variant = "single" =>
            /\ Counter \in 0..MAX_QUESTION_ROUNDS
            /\ Stage = "AWAITING_ANSWERS" => Counter <= MAX_QUESTION_ROUNDS - 1
    /\ variant = "multi" =>
            /\ Counter \in 0..(MAX_QUESTION_ROUNDS + 1)
            /\ Stage = "AWAITING_ANSWERS" => Counter <= MAX_QUESTION_ROUNDS

\* The answers of the fifth round of questions are in.
C29_Witness ==
    /\ variant = "multi"
    /\ last_op = "SubmitAnswers"
    /\ Counter = MAX_QUESTION_ROUNDS + 1
    /\ Stage = PromptType_DECISION

\* C30: while answers are awaited, chat_history starts with a user
\* message, ends with the question entries of ai_questions in their order,
\* and has an assistant message right before them.
C30_HistoryShapeAwaiting ==
    Stage = "AWAITING_ANSWERS" =>
        LET n == Len(session_state.ai_questions)
            before == Len(History) - n
        IN  /\ before >= 1
            /\ History[1].role = "user"
            /\ SubSeq(History, before + 1, Len(History))
                  = QuestionEntries(session_state.ai_questions)
            /\ History[before].role = "assistant"
            /\ History[before].content.fmt = "message"

\* The questions of the second round are on the page.
C30_Witness ==
    /\ variant = "multi"
    /\ Stage = "AWAITING_ANSWERS"
    /\ pc = "page_form"
    /\ Counter = 2
    /\ session_state.ai_questions = <<"q1", "q2">>
    /\ Len(History) > 3 + Len(session_state.ai_questions)

====
